---- MODULE Spec2Model ----
(***************************************************************************)
(* Model of the free-list heap allocator of the kernel                     *)
(* (src/src/allocator.rs) and of its GlobalAlloc binding                   *)
(* (src/src/allocator/global_impl.rs).                                     *)
(*                                                                         *)
(* Memory is modelled at the granularity of descriptor headers: mem maps   *)
(* the address of every ListNode the allocator currently owns to the two   *)
(* fields of that node.  The sentinel head of LinkedListAllocator is the   *)
(* node at address HEAD.  A `next` field holds an address or NULL.         *)
(***************************************************************************)
EXTENDS Integers, Sequences, FiniteSets, Bags, TLC

(* ---------------------------- program constants ---------------------- *)

\* const WORD_64: usize = 8
WORD_64 == 8

\* mem::size_of::<ListNode>() on the 64-bit target: usize + Option<&mut ListNode>
SizeOfListNode == 16

\* mem::align_of::<ListNode>() on the 64-bit target
AlignOfListNode == 8

\* ptr::null_mut() / Option::None of a reference
NULL == 0

\* address of ALLOCATOR.head, the sentinel: static data, below the heap
HEAD == 4

(* ------------------------------- bounds ------------------------------ *)

\* heap_size handed to init
HeapSize == 48

\* largest layout.size() requested
MaxSize == 48

\* heap_start handed to init: kmain rounds it up to a multiple of 8
HeapStart == 8

\* layout.size(): the sizes that end at a word boundary or one byte past it
Sizes == {s \in 1..MaxSize : s % WORD_64 \in {0, 1}}

\* layout.align(): below, at and above the alignment of a descriptor
Aligns == {WORD_64 \div 2, WORD_64, 2 * WORD_64}

Requests == Sizes \X Aligns

\* the execution contexts (harts) that call the allocator concurrently
NumContexts == 2

Contexts == 1..NumContexts

\* the interrupt handler of context p runs on the hart of p, in place of p
HandlerOf(p) == NumContexts + p

Handlers == {HandlerOf(p) : p \in Contexts}

AllContexts == Contexts \cup Handlers

\* the harts that take interrupts
NumInterrupted == 1

Interrupted == 1..NumInterrupted

\* the layouts an interrupt handler requests
HSizes == {SizeOfListNode}

HAligns == {WORD_64}

\* the layouts the contexts request: half a header, one header, one and a half
CSizes == {WORD_64, SizeOfListNode, SizeOfListNode + WORD_64}

CAligns == {WORD_64, 2 * WORD_64}

\* the number of bytes of the formatted panic message
MsgLen == 3

\* the bytes of "Kernel Panic! -> {info}\n" as write_fmt hands them to
\* write_str, named by their position
Msg == [i \in 1..MsgLen |-> i]

(* ------------------------------- state ------------------------------- *)

VARIABLES
    mem,         \* headers owned by the allocator: address -> [size, next]
    heap_start,  \* argument of init (0 before init)
    heap_size,   \* argument of init (0 before init)
    live,        \* bag of the allocations handed out and not yet released
    last,        \* the call that completed last, with its result
    rt,          \* history: the allocation made by the previous call, and
                 \* whether the call after it released it
    lock,        \* the flag of the spin::Mutex inside Locked
    pc,          \* where each context is in alloc/dealloc
    loc,         \* the arguments and local variables of each context's call
    shadow,      \* history: mem as the completed calls, applied whole and in
                 \* the order of their unlocking, leave it
    tri,         \* history: how far the calls since init follow "three equal
                 \* allocations, the middle one released"
    pan,         \* where the hart is on the path alloc error -> panic -> halt
    out,         \* the bytes written to the UART transmit register, in order
    tx,          \* LSR_TX_EMPTY: the transmit register takes a byte
    ulock        \* the flag of the spin::Mutex around UART

vars == <<mem, heap_start, heap_size, live, last, rt, lock, pc, loc, shadow,
          tri, pan, out, tx, ulock>>

\* the variables of the console and of the panic path
uvars == <<pan, out, tx, ulock>>

\* the variables of the contexts
cvars == <<lock, pc, loc, shadow>>

(* ------------------------- allocator.rs: helpers --------------------- *)

align_up(addr, align) ==
    LET reminder == addr % align
    IN  IF reminder = 0 THEN addr ELSE addr + align - reminder

start_addr(n) == n

end_addr(m, n) == start_addr(n) + m[n].size

Perfect(addr) == [fit |-> "Perfect", addr |-> addr]

Split(addr) == [fit |-> "Split", addr |-> addr]

None == [fit |-> "None", addr |-> NULL]

\* can_fit with the alignment of the request forgotten
can_fit_unaligned(m, n, size, align) ==
    LET aligned_address == start_addr(n)
        end_alloc == aligned_address + size
    IN  IF end_alloc = end_addr(m, n)
        THEN Perfect(aligned_address)
        ELSE IF end_alloc + SizeOfListNode <= end_addr(m, n)
             THEN Split(aligned_address)
             ELSE None

\* can_fit with the room for the header of the remainder not asked for
can_fit_no_header(m, n, size, align) ==
    LET aligned_address == align_up(start_addr(n), align)
        end_alloc == aligned_address + size
    IN  IF end_alloc = end_addr(m, n)
        THEN Perfect(aligned_address)
        ELSE IF end_alloc < end_addr(m, n)
             THEN Split(aligned_address)
             ELSE None

can_fit(m, n, size, align) ==
    LET aligned_address == align_up(start_addr(n), align)
        end_alloc == aligned_address + size
    IN  IF end_alloc = end_addr(m, n)
        THEN Perfect(aligned_address)
        ELSE IF end_alloc + SizeOfListNode <= end_addr(m, n)
             THEN Split(aligned_address)
             ELSE None

\* ptr::write of a ListNode at address a
WriteNode(m, a, node) == [x \in DOMAIN m \cup {a} |-> IF x = a THEN node ELSE m[x]]

\* the memory of node a leaves the allocator: it is handed to the caller
Disown(m, a) == [x \in DOMAIN m \ {a} |-> m[x]]

SetNext(m, a, nx) == [m EXCEPT ![a].next = nx]

\* the list holds at most one node per heap word, and the sentinel
MaxNodes == (HeapSize \div WORD_64) + 2

(* ---------------------- allocator.rs: find_region -------------------- *)

\* perfect_arm with the successor of the block not linked back in
perfect_arm_drop_tail(m, cur, next_node) ==
    Disown(SetNext(m, cur, NULL), next_node)

\* perfect_arm with the block handed out and left on the list as well
perfect_arm_keep(m, cur, next_node) == m

\* Perfect arm: current_node.next = next_node.next.take(); the block leaves
\* the list and its memory goes to the caller.
perfect_arm(m, cur, next_node) ==
    Disown(SetNext(m, cur, m[next_node].next), next_node)

\* split_arm with the successor link of the old block not carried over
split_arm_lose_next(m, cur, next_node, addr, size) ==
    LET alloc_end     == addr + size
        new_free_addr == align_up(alloc_end, AlignOfListNode)
        new_free_size == end_addr(m, next_node) - new_free_addr
        written       == WriteNode(Disown(m, next_node), new_free_addr,
                             [size |-> new_free_size, next |-> NULL])
    IN  SetNext(written, cur, new_free_addr)

\* split_arm with the remainder placed at the start of the allocation
split_arm_at_start(m, cur, next_node, addr, size) ==
    LET alloc_end     == addr
        new_free_addr == align_up(alloc_end, AlignOfListNode)
        new_free_size == end_addr(m, next_node) - new_free_addr
        next_ptr      == m[next_node].next
        written       == WriteNode(Disown(m, next_node), new_free_addr,
                             [size |-> new_free_size, next |-> next_ptr])
    IN  SetNext(written, cur, new_free_addr)

\* Split arm: the remainder of the block becomes a new node, written after
\* the allocation at the next descriptor-aligned address.
split_arm(m, cur, next_node, addr, size) ==
    LET alloc_end     == addr + size
        new_free_addr == align_up(alloc_end, AlignOfListNode)
        new_free_size == end_addr(m, next_node) - new_free_addr
        next_ptr      == m[next_node].next
        written       == WriteNode(Disown(m, next_node), new_free_addr,
                             [size |-> new_free_size, next |-> next_ptr])
    IN  SetNext(written, cur, new_free_addr)

\* the None arm unlinking the block it skips, as the Perfect arm does
advance_unlink(m, cur) ==
    [mem |-> SetNext(m, cur, m[m[cur].next].next), cur |-> cur]

\* None arm: current_node = current_node.next.as_mut().unwrap()
advance(m, cur) == [mem |-> m, cur |-> m[cur].next]

\* One pass of the `while let` loop with current_node = cur; fuel bounds the
\* number of iterations, a list longer than the heap has words is cyclic.
RECURSIVE find_from(_, _, _, _, _)
find_from(m, cur, size, align, fuel) ==
    LET next_node == m[cur].next
    IN  IF next_node = NULL
        THEN [ret |-> NULL, mem |-> m, fit |-> "None", blk |-> NULL, prev |-> cur]
        ELSE IF fuel = 0
        THEN [ret |-> NULL, mem |-> m, fit |-> "Diverge", blk |-> NULL, prev |-> cur]
        ELSE
        LET f == can_fit(m, next_node, size, align)
        IN  CASE f.fit = "Perfect" ->
                 [ret |-> f.addr, mem |-> perfect_arm(m, cur, next_node),
                  fit |-> "Perfect", blk |-> next_node, prev |-> cur]
              [] f.fit = "Split" ->
                 [ret |-> f.addr, mem |-> split_arm(m, cur, next_node, f.addr, size),
                  fit |-> "Split", blk |-> next_node, prev |-> cur]
              [] OTHER ->
                 LET adv == advance(m, cur)
                 IN  find_from(adv.mem, adv.cur, size, align, fuel - 1)

find_region(m, size, align) == find_from(m, HEAD, size, align, MaxNodes)

(* -------------------- allocator.rs: add_free_region ------------------ *)

\* insertion_point without the traversal: the new node goes to the front
insertion_point_front(m, current, aligned_addr, fuel) == current

\* the `while let` loop of add_free_region: the node after which to insert
RECURSIVE insertion_point(_, _, _, _)
insertion_point(m, current, aligned_addr, fuel) ==
    LET node == m[current].next
    IN  IF node = NULL \/ fuel = 0 THEN current
        ELSE IF start_addr(node) > aligned_addr THEN current
        ELSE insertion_point(m, node, aligned_addr, fuel - 1)

\* add_free_region without the early return for regions below a header
add_free_region_keep_small(m, addr, size) ==
    LET aligned_addr == align_up(addr, WORD_64)
        current_size == addr + size - aligned_addr
        written == WriteNode(m, aligned_addr, [size |-> current_size, next |-> NULL])
        current == insertion_point(written, HEAD, aligned_addr, MaxNodes)
        taken   == SetNext(written, aligned_addr, written[current].next)
    IN  SetNext(taken, current, aligned_addr)

\* add_free_region merging the new node with a successor that starts where
\* the released region ends
add_free_region_merge(m, addr, size) ==
    LET aligned_addr == align_up(addr, WORD_64)
        current_size == addr + size - aligned_addr
    IN  IF current_size < SizeOfListNode
        THEN m
        ELSE LET written == WriteNode(m, aligned_addr,
                                [size |-> current_size, next |-> NULL])
                 current == insertion_point(written, HEAD, aligned_addr, MaxNodes)
                 succ    == written[current].next
             IN  IF succ # NULL /\ succ = aligned_addr + current_size
                 THEN SetNext(Disown(WriteNode(written, aligned_addr,
                                  [size |-> current_size + written[succ].size,
                                   next |-> written[succ].next]), succ),
                              current, aligned_addr)
                 ELSE SetNext(SetNext(written, aligned_addr, succ),
                              current, aligned_addr)

\* add_free_region with the two link assignments in the other order: the new
\* node takes its successor from a link that already points at it
add_free_region_self_link(m, addr, size) ==
    LET aligned_addr == align_up(addr, WORD_64)
        current_size == addr + size - aligned_addr
    IN  IF current_size < SizeOfListNode
        THEN m
        ELSE LET written == WriteNode(m, aligned_addr,
                                [size |-> current_size, next |-> NULL])
                 current == insertion_point(written, HEAD, aligned_addr, MaxNodes)
                 linked  == SetNext(written, current, aligned_addr)
             IN  SetNext(linked, aligned_addr, linked[current].next)

add_free_region(m, addr, size) ==
    LET aligned_addr == align_up(addr, WORD_64)
        current_size == addr + size - aligned_addr
    IN  IF current_size < SizeOfListNode
        THEN m
        ELSE LET written == WriteNode(m, aligned_addr,
                                [size |-> current_size, next |-> NULL])
                 current == insertion_point(written, HEAD, aligned_addr, MaxNodes)
                 \* new_node.next = current.next.take()
                 taken   == SetNext(written, aligned_addr, written[current].next)
             IN  \* current.next = Some(new_node)
                 SetNext(taken, current, aligned_addr)

\* LinkedListAllocator::init
init(m, start, size) == add_free_region(m, start, size)

(* --------------------------- the free list --------------------------- *)

\* the addresses of the nodes reachable from node a, in list order
RECURSIVE Chain(_, _, _)
Chain(m, a, fuel) ==
    IF a = NULL \/ fuel = 0 \/ a \notin DOMAIN m THEN <<>>
    ELSE <<a>> \o Chain(m, m[a].next, fuel - 1)

\* the free list of memory m: the nodes reachable from the sentinel, the
\* sentinel excluded
FreeListOf(m) == Chain(m, m[HEAD].next, MaxNodes)

FreeList == FreeListOf(mem)

FreeNodes == {FreeList[i] : i \in 1..Len(FreeList)}

\* the sum of the size fields of the nodes of memory m listed in q
RECURSIVE SumSizes(_, _)
SumSizes(m, q) == IF q = <<>> THEN 0 ELSE m[Head(q)].size + SumSizes(m, Tail(q))

\* total free capacity: the sizes of the nodes on the free list of m
TotalFreeOf(m) == SumSizes(m, FreeListOf(m))

TotalFree == TotalFreeOf(mem)

(* --------------------------- history records ------------------------- *)

NoCall == [op |-> "none", size |-> 0, align |-> 0, ret |-> NULL,
           fit |-> "None", blk |-> NULL, prev |-> NULL, again |-> FALSE]

NoTrip == [phase |-> "none", size |-> 0, align |-> 0, addr |-> NULL]

\* the calls so far are not a prefix of the three-allocations scenario
NoTri == [phase |-> "off", size |-> 0, align |-> 0, mid |-> NULL]

\* the locals of a context that is in no call
NoLocals == [op |-> "none", size |-> 0, align |-> 0, addr |-> NULL,
             cur |-> NULL, node |-> NULL, tmp |-> NULL,
             new |-> NULL, nsize |-> 0, ret |-> NULL]

\* the scenario record after an allocate(size, align) that returned ret
TriAlloc(t, size, align, ret) ==
    CASE ret = NULL -> NoTri
      [] t.phase = "fresh" ->
         [phase |-> "one", size |-> size, align |-> align, mid |-> NULL]
      [] t.phase = "one" /\ t.size = size /\ t.align = align ->
         [t EXCEPT !.phase = "two", !.mid = ret]
      [] t.phase = "two" /\ t.size = size /\ t.align = align ->
         [t EXCEPT !.phase = "three"]
      [] OTHER -> NoTri

(* ------------------------------- actions ----------------------------- *)

\* LinkedListAllocator::new(): an empty list, only the sentinel
Init ==
    /\ mem = (HEAD :> [size |-> 0, next |-> NULL])
    /\ heap_start = 0
    /\ heap_size = 0
    /\ live = EmptyBag
    /\ last = NoCall
    /\ rt = NoTrip
    /\ lock = FALSE
    /\ pc = [p \in AllContexts |-> "idle"]
    /\ loc = [p \in AllContexts |-> NoLocals]
    /\ shadow = mem
    /\ tri = NoTri
    /\ pan = "run"
    /\ out = <<>>
    /\ tx = TRUE
    /\ ulock = FALSE

\* kmain: ALLOCATOR.lock().init(start, heap_size), once, before any allocation
InitHeap ==
    /\ last.op = "none"
    /\ mem' = init(mem, HeapStart, HeapSize)
    /\ heap_start' = HeapStart
    /\ heap_size' = HeapSize
    /\ last' = [NoCall EXCEPT !.op = "init", !.ret = HeapStart, !.size = HeapSize]
    /\ tri' = [NoTri EXCEPT !.phase = "fresh"]
    /\ UNCHANGED <<live, rt, cvars, uvars>>

\* GlobalAlloc::alloc(layout) with layout.size() = size, layout.align() = align
alloc(size, align) ==
    /\ last.op # "none"
    /\ LET r == find_region(mem, size, align)
       IN  /\ mem' = r.mem
           /\ live' = IF r.ret = NULL THEN live
                      ELSE live (+) SetToBag({[addr |-> r.ret, size |-> size]})
           /\ last' = [op |-> "alloc", size |-> size, align |-> align, ret |-> r.ret,
                       fit |-> r.fit, blk |-> r.blk, prev |-> r.prev,
                       again |-> (rt.phase = "released" /\ rt.size = size
                                                        /\ rt.align = align)]
           /\ rt' = IF r.ret = NULL THEN NoTrip
                    ELSE [phase |-> "allocd", size |-> size, align |-> align,
                          addr |-> r.ret]
           /\ tri' = TriAlloc(tri, size, align, r.ret)
    /\ UNCHANGED <<heap_start, heap_size, cvars, uvars>>

\* GlobalAlloc::dealloc(ptr, layout) of a live allocation with its own layout
dealloc(x) ==
    /\ x \in BagToSet(live)
    /\ mem' = add_free_region(mem, x.addr, x.size)
    /\ live' = live (-) SetToBag({x})
    /\ last' = [NoCall EXCEPT !.op = "dealloc", !.size = x.size, !.ret = x.addr]
    /\ rt' = IF rt.phase = "allocd" /\ rt.addr = x.addr
             THEN [rt EXCEPT !.phase = "released"]
             ELSE NoTrip
    /\ tri' = IF tri.phase = "three" /\ x.addr = tri.mid
              THEN [tri EXCEPT !.phase = "released"]
              ELSE NoTri
    /\ UNCHANGED <<heap_start, heap_size, cvars, uvars>>

Next ==
    \/ InitHeap
    \/ \E size \in Sizes, align \in Aligns : alloc(size, align)
    \/ \E x \in BagToSet(live) : dealloc(x)

Spec == Init /\ [][Next]_vars

(* ------------- main.rs, uart.rs: allocation error and panic ---------- *)
(* The hart that runs kmain.  A null from alloc makes the alloc crate call *)
(* the #[alloc_error_handler], which panics; the #[panic_handler] prints   *)
(* through _print and then loops.                                          *)

\* alloc_error_handler(layout): panic!("Allocation error: {:?}", layout)
alloc_error_handler ==
    /\ pan = "run"
    /\ last.op = "alloc" /\ last.ret = NULL
    /\ pan' = "panic"
    /\ UNCHANGED <<mem, heap_start, heap_size, live, last, rt, tri, cvars,
                   out, tx, ulock>>

\* panic(info): println! -> _print: UART.lock() returns once the flag is free
print_lock ==
    /\ pan = "panic"
    /\ ~ulock
    /\ ulock' = TRUE
    /\ pan' = "write"
    /\ UNCHANGED <<mem, heap_start, heap_size, live, last, rt, tri, cvars, out, tx>>

\* write_str with its loop ending one byte early
write_str_done_short(o) == Len(o) >= MsgLen - 1

\* write_str: `for byte in s.bytes()` has passed the last byte of the message
write_str_done(o) == Len(o) = MsgLen

\* put_byte(byte): the poll of LSR has seen LSR_TX_EMPTY, the byte is written
\* to the transmit register; while the bit is clear the hart spins here
put_byte ==
    /\ pan = "write"
    /\ ~write_str_done(out)
    /\ tx
    /\ out' = Append(out, Msg[Len(out) + 1])
    /\ tx' = FALSE
    /\ UNCHANGED <<mem, heap_start, heap_size, live, last, rt, tri, cvars, pan, ulock>>

\* the UART has sent the byte: the transmit register is empty again
Transmit ==
    /\ ~tx
    /\ tx' = TRUE
    /\ UNCHANGED <<mem, heap_start, heap_size, live, last, rt, tri, cvars,
                   pan, out, ulock>>

\* _print returns: write_fmt gave Ok, the guard of UART is dropped; the
\* panic handler goes on to `loop {}`
print_unlock ==
    /\ pan = "write"
    /\ write_str_done(out)
    /\ ulock' = FALSE
    /\ pan' = "halt"
    /\ UNCHANGED <<mem, heap_start, heap_size, live, last, rt, tri, cvars, out, tx>>

\* panic(info): loop {}
halt_loop ==
    /\ pan = "halt"
    /\ UNCHANGED vars

\* the steps of the hart between the failed allocation and the halt loop
PanicPath == alloc_error_handler \/ print_lock \/ put_byte \/ print_unlock

NextP ==
    \/ pan = "run" /\ InitHeap
    \/ pan = "run" /\ \E size \in CSizes, align \in CAligns : alloc(size, align)
    \/ pan = "run" /\ \E x \in BagToSet(live) : dealloc(x)
    \/ alloc_error_handler
    \/ print_lock
    \/ put_byte
    \/ Transmit
    \/ print_unlock
    \/ halt_loop

\* the hart keeps executing and the UART keeps sending
SpecP == Init /\ [][NextP]_vars /\ WF_vars(PanicPath) /\ WF_vars(Transmit)

(* ---------------- the calls of concurrent contexts ------------------- *)
(* The same code step by step: every read-modify-write of a `next` link   *)
(* (Option::take, then the assignment) and every ptr::write is a step of  *)
(* its own, so the list is seen as it is between them.                    *)

\* the state after kmain has initialised the heap, before the contexts run
InitC ==
    /\ mem = init((HEAD :> [size |-> 0, next |-> NULL]), HeapStart, HeapSize)
    /\ heap_start = HeapStart
    /\ heap_size = HeapSize
    /\ live = EmptyBag
    /\ last = [NoCall EXCEPT !.op = "init", !.ret = HeapStart, !.size = HeapSize]
    /\ rt = NoTrip
    /\ lock = FALSE
    /\ pc = [p \in AllContexts |-> "idle"]
    /\ loc = [p \in AllContexts |-> NoLocals]
    /\ shadow = mem
    /\ tri = NoTri
    /\ pan = "run"
    /\ out = <<>>
    /\ tx = TRUE
    /\ ulock = FALSE

\* context p calls GlobalAlloc::alloc(layout)
CallAlloc(p, size, align) ==
    /\ pc[p] = "idle"
    /\ pc' = [pc EXCEPT ![p] = "lock"]
    /\ loc' = [loc EXCEPT ![p] = [NoLocals EXCEPT !.op = "alloc", !.size = size,
                                                  !.align = align]]
    /\ UNCHANGED <<mem, heap_start, heap_size, live, last, rt, tri, uvars, lock, shadow>>

\* context p calls GlobalAlloc::dealloc(ptr, layout) on a live allocation
CallDealloc(p, x) ==
    /\ pc[p] = "idle"
    /\ x \in BagToSet(live)
    /\ live' = live (-) SetToBag({x})
    /\ pc' = [pc EXCEPT ![p] = "lock"]
    /\ loc' = [loc EXCEPT ![p] = [NoLocals EXCEPT !.op = "dealloc", !.size = x.size,
                                                  !.addr = x.addr]]
    /\ UNCHANGED <<mem, heap_start, heap_size, last, rt, tri, uvars, lock, shadow>>

\* Locked::lock with the flag not tested: the mutex taken whoever holds it
Lock_untested(p) ==
    /\ pc[p] = "lock"
    /\ lock' = TRUE
    /\ pc' = [pc EXCEPT ![p] = "held"]
    /\ loc' = [loc EXCEPT ![p].cur = HEAD]
    /\ UNCHANGED <<mem, heap_start, heap_size, live, last, rt, tri, uvars, shadow>>

\* Locked::lock with the test of the flag inverted
Lock_inverted(p) ==
    /\ pc[p] = "lock"
    /\ lock
    /\ lock' = TRUE
    /\ pc' = [pc EXCEPT ![p] = "held"]
    /\ loc' = [loc EXCEPT ![p].cur = HEAD]
    /\ UNCHANGED <<mem, heap_start, heap_size, live, last, rt, tri, uvars, shadow>>

\* Locked::lock as a re-entrant mutex: a handler is let in while the context
\* it interrupted is the holder
Lock_reentrant(p) ==
    /\ pc[p] = "lock"
    /\ \/ ~lock
       \/ p \in Handlers /\ pc[p - NumContexts] \notin {"idle", "lock"}
    /\ lock' = TRUE
    /\ pc' = [pc EXCEPT ![p] = "held"]
    /\ loc' = [loc EXCEPT ![p].cur = HEAD]
    /\ UNCHANGED <<mem, heap_start, heap_size, live, last, rt, tri, uvars, shadow>>

\* Locked::lock: spin::Mutex::lock returns once it has set the free flag
Lock(p) ==
    /\ pc[p] = "lock"
    /\ ~lock
    /\ lock' = TRUE
    /\ pc' = [pc EXCEPT ![p] = "held"]
    /\ loc' = [loc EXCEPT ![p].cur = HEAD]
    /\ UNCHANGED <<mem, heap_start, heap_size, live, last, rt, tri, uvars, shadow>>

\* find_region: one iteration of the loop, up to the take() of the arm taken
Find(p) ==
    /\ pc[p] \in {"held", "find"}
    /\ loc[p].op = "alloc"
    /\ LET l == loc[p]
           next_node == mem[l.cur].next
       IN  IF next_node = NULL
           THEN /\ pc' = [pc EXCEPT ![p] = "unlock"]
                /\ loc' = [loc EXCEPT ![p].ret = NULL]
                /\ mem' = mem
           ELSE LET f == can_fit(mem, next_node, l.size, l.align)
                    new_free_addr == align_up(f.addr + l.size, AlignOfListNode)
                IN  CASE f.fit = "Perfect" ->
                         /\ pc' = [pc EXCEPT ![p] = "perfect_link"]
                         /\ loc' = [loc EXCEPT ![p].node = next_node,
                                               ![p].tmp = mem[next_node].next,
                                               ![p].ret = f.addr]
                         /\ mem' = SetNext(mem, next_node, NULL)
                      [] f.fit = "Split" ->
                         /\ pc' = [pc EXCEPT ![p] = "split_write"]
                         /\ loc' = [loc EXCEPT ![p].node = next_node,
                                               ![p].tmp = mem[next_node].next,
                                               ![p].new = new_free_addr,
                                               ![p].nsize = end_addr(mem, next_node)
                                                                - new_free_addr,
                                               ![p].ret = f.addr]
                         /\ mem' = SetNext(mem, next_node, NULL)
                      [] OTHER ->
                         /\ pc' = [pc EXCEPT ![p] = "find"]
                         /\ loc' = [loc EXCEPT ![p].cur = next_node]
                         /\ mem' = mem
    /\ UNCHANGED <<heap_start, heap_size, live, last, rt, tri, uvars, lock, shadow>>

\* Perfect arm: current_node.next = (the link taken)
PerfectLink(p) ==
    /\ pc[p] = "perfect_link"
    /\ mem' = Disown(SetNext(mem, loc[p].cur, loc[p].tmp), loc[p].node)
    /\ pc' = [pc EXCEPT ![p] = "unlock"]
    /\ UNCHANGED <<heap_start, heap_size, live, last, rt, tri, uvars, lock, loc, shadow>>

\* Split arm: ptr::write_volatile(new_node_ptr, ListNode { .. })
SplitWrite(p) ==
    /\ pc[p] = "split_write"
    /\ mem' = WriteNode(mem, loc[p].new, [size |-> loc[p].nsize, next |-> loc[p].tmp])
    /\ pc' = [pc EXCEPT ![p] = "split_link"]
    /\ UNCHANGED <<heap_start, heap_size, live, last, rt, tri, uvars, lock, loc, shadow>>

\* Split arm: current_node.next = Some(&mut *new_node_ptr)
SplitLink(p) ==
    /\ pc[p] = "split_link"
    /\ mem' = SetNext(Disown(mem, loc[p].node), loc[p].cur, loc[p].new)
    /\ pc' = [pc EXCEPT ![p] = "unlock"]
    /\ UNCHANGED <<heap_start, heap_size, live, last, rt, tri, uvars, lock, loc, shadow>>

\* add_free_region up to the ptr::write of the new node, or the early return
AddWrite(p) ==
    /\ pc[p] = "held"
    /\ loc[p].op = "dealloc"
    /\ LET aligned_addr == align_up(loc[p].addr, WORD_64)
           current_size == loc[p].addr + loc[p].size - aligned_addr
       IN  IF current_size < SizeOfListNode
           THEN /\ pc' = [pc EXCEPT ![p] = "unlock"]
                /\ UNCHANGED <<mem, loc>>
           ELSE /\ mem' = WriteNode(mem, aligned_addr,
                               [size |-> current_size, next |-> NULL])
                /\ loc' = [loc EXCEPT ![p].new = aligned_addr]
                /\ pc' = [pc EXCEPT ![p] = "add_walk"]
    /\ UNCHANGED <<heap_start, heap_size, live, last, rt, tri, uvars, lock, shadow>>

\* add_free_region: one iteration of the loop, or new_node.next =
\* current.next.take() once the loop has ended
AddWalk(p) ==
    /\ pc[p] = "add_walk"
    /\ LET node == mem[loc[p].cur].next
       IN  IF node # NULL /\ ~(start_addr(node) > loc[p].new)
           THEN /\ loc' = [loc EXCEPT ![p].cur = node]
                /\ UNCHANGED <<mem, pc>>
           ELSE /\ mem' = SetNext(SetNext(mem, loc[p].new, node), loc[p].cur, NULL)
                /\ pc' = [pc EXCEPT ![p] = "add_link"]
                /\ loc' = loc
    /\ UNCHANGED <<heap_start, heap_size, live, last, rt, tri, uvars, lock, shadow>>

\* add_free_region: current.next = Some(new_node)
AddLink(p) ==
    /\ pc[p] = "add_link"
    /\ mem' = SetNext(mem, loc[p].cur, loc[p].new)
    /\ pc' = [pc EXCEPT ![p] = "unlock"]
    /\ UNCHANGED <<heap_start, heap_size, live, last, rt, tri, uvars, lock, loc, shadow>>

\* the call of context p applied whole to memory m
Whole(m, l) ==
    IF l.op = "alloc"
    THEN LET r == find_region(m, l.size, l.align) IN [mem |-> r.mem, ret |-> r.ret]
    ELSE [mem |-> add_free_region(m, l.addr, l.size), ret |-> NULL]

\* alloc returning null with its MutexGuard forgotten, not dropped
Unlock_forget_null(p) ==
    /\ pc[p] = "unlock"
    /\ lock' = (loc[p].op = "alloc" /\ loc[p].ret = NULL)
    /\ pc' = [pc EXCEPT ![p] = "idle"]
    /\ loc' = [loc EXCEPT ![p] = NoLocals]
    /\ live' = IF loc[p].op = "alloc" /\ loc[p].ret # NULL
               THEN live (+) SetToBag({[addr |-> loc[p].ret, size |-> loc[p].size]})
               ELSE live
    /\ shadow' = Whole(shadow, loc[p]).mem
    /\ UNCHANGED <<mem, heap_start, heap_size, last, rt, tri, uvars>>

\* the MutexGuard is dropped as alloc/dealloc returns
Unlock(p) ==
    /\ pc[p] = "unlock"
    /\ lock' = FALSE
    /\ pc' = [pc EXCEPT ![p] = "idle"]
    /\ loc' = [loc EXCEPT ![p] = NoLocals]
    /\ live' = IF loc[p].op = "alloc" /\ loc[p].ret # NULL
               THEN live (+) SetToBag({[addr |-> loc[p].ret, size |-> loc[p].size]})
               ELSE live
    /\ shadow' = Whole(shadow, loc[p]).mem
    /\ UNCHANGED <<mem, heap_start, heap_size, last, rt, tri, uvars>>

NextC ==
    \/ \E p \in Contexts, size \in CSizes, align \in CAligns : CallAlloc(p, size, align)
    \/ \E p \in Contexts : \E x \in BagToSet(live) : CallDealloc(p, x)
    \/ \E p \in Contexts : Lock(p)
    \/ \E p \in Contexts : Find(p)
    \/ \E p \in Contexts : PerfectLink(p)
    \/ \E p \in Contexts : SplitWrite(p)
    \/ \E p \in Contexts : SplitLink(p)
    \/ \E p \in Contexts : AddWrite(p)
    \/ \E p \in Contexts : AddWalk(p)
    \/ \E p \in Contexts : AddLink(p)
    \/ \E p \in Contexts : Unlock(p)

SpecC == InitC /\ [][NextC]_vars

\* the steps of context p inside a call, from lock() to the return
Step(p) ==
    \/ Lock(p) \/ Find(p) \/ PerfectLink(p) \/ SplitWrite(p) \/ SplitLink(p)
    \/ AddWrite(p) \/ AddWalk(p) \/ AddLink(p) \/ Unlock(p)

\* every hart keeps executing the call it is in: a context that can take a
\* step of its call does not wait forever
SpecF == SpecC /\ \A p \in Contexts : WF_vars(Step(p))

(* ------------------------- interrupt handlers ------------------------- *)
(* An interrupt suspends context p and runs its handler on the same hart; *)
(* p resumes when the handler has returned.  The handler calls alloc or   *)
(* dealloc on the same ALLOCATOR.                                         *)

\* context p executes: no handler is running on its hart; a handler is not
\* interrupted in turn
Runs(p) == IF p \in Handlers THEN TRUE ELSE pc[HandlerOf(p)] = "idle"

\* the handler of context p is entered and calls alloc(layout)
InterruptAlloc(p, size, align) == CallAlloc(HandlerOf(p), size, align)

\* the handler of context p is entered and calls dealloc(ptr, layout)
InterruptDealloc(p, x) == CallDealloc(HandlerOf(p), x)

NextI ==
    \/ \E p \in Contexts, size \in CSizes, align \in CAligns :
           Runs(p) /\ CallAlloc(p, size, align)
    \/ \E p \in Contexts : \E x \in BagToSet(live) : Runs(p) /\ CallDealloc(p, x)
    \/ \E p \in Interrupted, size \in HSizes, align \in HAligns :
           InterruptAlloc(p, size, align)
    \/ \E p \in Interrupted : \E x \in BagToSet(live) : InterruptDealloc(p, x)
    \/ \E p \in AllContexts : Runs(p) /\ Lock(p)
    \/ \E p \in AllContexts : Runs(p) /\ Find(p)
    \/ \E p \in AllContexts : Runs(p) /\ PerfectLink(p)
    \/ \E p \in AllContexts : Runs(p) /\ SplitWrite(p)
    \/ \E p \in AllContexts : Runs(p) /\ SplitLink(p)
    \/ \E p \in AllContexts : Runs(p) /\ AddWrite(p)
    \/ \E p \in AllContexts : Runs(p) /\ AddWalk(p)
    \/ \E p \in AllContexts : Runs(p) /\ AddLink(p)
    \/ \E p \in AllContexts : Runs(p) /\ Unlock(p)

SpecI == InitC /\ [][NextI]_vars

(* ------------------------------ regions ------------------------------ *)

LiveSet == BagToSet(live)

\* [a1, a1 + s1) and [a2, a2 + s2) share a byte
Overlap(a1, s1, a2, s2) == a1 < a2 + s2 /\ a2 < a1 + s1

(* ------------------------------- claims ------------------------------ *)

\* C1: after every call the nodes reachable from the sentinel have strictly
\* ascending start addresses and pairwise disjoint regions [start, start+size).
C1_SortedDisjoint ==
    \A i, j \in 1..Len(FreeList) :
        i < j => /\ FreeList[i] < FreeList[j]
                 /\ end_addr(mem, FreeList[i]) <= FreeList[j]

\* a release has put a block in front of two blocks already in the list
C1_Witness ==
    /\ last.op = "dealloc"
    /\ Len(FreeList) >= 3
    /\ FreeList[1] = last.ret

\* C2: every node of the free list has size at least one descriptor header.
C2_NodesHoldHeader ==
    \A n \in FreeNodes : mem[n].size >= SizeOfListNode

\* C3: a live allocation overlaps no other live allocation and no free block.
C3_SingleOwner ==
    \A x \in LiveSet :
        /\ live[x] = 1
        /\ \A y \in LiveSet : x # y => ~Overlap(x.addr, x.size, y.addr, y.size)
        /\ \A n \in FreeNodes : ~Overlap(x.addr, x.size, n, mem[n].size)

\* a split has just handed out memory next to two earlier allocations, with
\* free blocks on the list
C3_Witness ==
    /\ last.op = "alloc"
    /\ last.fit = "Split"
    /\ Cardinality(LiveSet) >= 3
    /\ Len(FreeList) >= 1

\* C4: a successful allocate(size, align) returns a multiple of align, and
\* [addr, addr+size) lies inside [heap_start, heap_start+heap_size).
C4_AlignedInHeap ==
    /\ (last.op = "alloc" /\ last.ret # NULL) =>
           /\ last.ret % last.align = 0
           /\ heap_start <= last.ret
           /\ last.ret + last.size <= heap_start + heap_size
    /\ \A x \in LiveSet :
           heap_start <= x.addr /\ x.addr + x.size <= heap_start + heap_size

\* an over-aligned request was served past the start of its block
C4_Witness ==
    /\ last.op = "alloc"
    /\ last.ret # NULL
    /\ last.align = 2 * WORD_64
    /\ last.ret # last.blk

\* C6: allocate(N, align) succeeds, the allocation is released with size N,
\* and allocate(N, align) is called again with no call in between: it succeeds.
C6_RoundTrip ==
    (last.op = "alloc" /\ last.again) => last.ret # NULL

(* The request (size, align) against block b of the current free list, as    *)
(* the claims word it: the allocation starts at b's address rounded up to    *)
(* align and either ends where b ends or leaves room for one header.         *)
HostsExactly(b, size, align) ==
    align_up(b, align) + size = end_addr(mem, b)

HostsWithRoom(b, size, align) ==
    align_up(b, align) + size + SizeOfListNode <= end_addr(mem, b)

Hosts(b, size, align) ==
    HostsExactly(b, size, align) \/ HostsWithRoom(b, size, align)

\* the first block in list order that can host the request, or NULL
FirstFit(size, align) ==
    LET fits == {i \in 1..Len(FreeList) : Hosts(FreeList[i], size, align)}
    IN  IF fits = {} THEN NULL
        ELSE FreeList[CHOOSE i \in fits : \A j \in fits : i <= j]

\* the node whose next link leads to block b
Pred(b) ==
    LET i == CHOOSE k \in 1..Len(FreeList) : FreeList[k] = b
    IN  IF i = 1 THEN HEAD ELSE FreeList[i - 1]

\* allocate(size, align) would fail on memory m
WouldFail(m, size, align) == find_region(m, size, align).ret = NULL

\* C7 (as claimed): a request that fails keeps failing until a release.  A
\* failed call leaves the state as it is, so allocate(size, align) has failed
\* at some point since the last release exactly when WouldFail held there;
\* the claim is that no allocate step turns WouldFail from true to false.
C7_FailsUntilRelease ==
    [][last'.op = "alloc" =>
          \A req \in Requests :
              WouldFail(mem, req[1], req[2]) => WouldFail(mem', req[1], req[2])]_vars

\* C7 (amended): when no block of the list hosts the request, allocate returns
\* NULL after a terminating search and leaves the free list and the live
\* allocations exactly as they were; so the same request keeps failing until
\* a release or a successful allocate changes the list.
C7_FailsUntilListChanges ==
    [][last'.op = "alloc" =>
          /\ FirstFit(last'.size, last'.align) = NULL =>
                 last'.ret = NULL /\ last'.fit = "None"
          /\ last'.ret = NULL => (mem' = mem /\ live' = live)]_vars

\* an allocate has failed after walking past two blocks that do not fit
C7_Witness ==
    /\ last.op = "alloc"
    /\ last.ret = NULL
    /\ Len(FreeList) >= 2
    /\ LiveSet # {}

\* block b has left the list of the next state and nothing else has changed
Removed(b) ==
    /\ FreeListOf(mem') = SelectSeq(FreeList, LAMBDA n : n # b)
    /\ Len(FreeListOf(mem')) = Len(FreeList) - 1
    /\ mem'[Pred(b)].next = mem[b].next
    /\ \A n \in FreeNodes \ {b} : n \in DOMAIN mem' /\ mem'[n].size = mem[n].size

\* C8 (as claimed): when the block the allocation is taken from is consumed
\* exactly, allocate returns that block's start address and removes exactly
\* that node, the predecessor pointing to its successor, the rest unchanged.
C8_PerfectReturnsBlockStart ==
    [][last'.op = "alloc" =>
          \A b \in FreeNodes :
              (b = FirstFit(last'.size, last'.align)
                  /\ HostsExactly(b, last'.size, last'.align))
              => (last'.ret = start_addr(b) /\ Removed(b))]_vars

\* C8 (amended): when the first block in list order that can host the request
\* is consumed exactly, allocate returns that block's start address rounded up
\* to align and removes exactly that node, the predecessor pointing to its
\* successor, every other node keeping its address and size.
C8_PerfectFit ==
    [][last'.op = "alloc" =>
          \A b \in FreeNodes :
              (b = FirstFit(last'.size, last'.align)
                  /\ HostsExactly(b, last'.size, last'.align))
              => (last'.ret = align_up(start_addr(b), last'.align) /\ Removed(b))]_vars

\* a perfect fit has removed a block that was not the first of the list, for
\* an over-aligned request served past the start of the block
C8_Witness ==
    /\ last.op = "alloc"
    /\ last.fit = "Perfect"
    /\ last.prev # HEAD
    /\ last.prev \in FreeNodes
    /\ last.ret # last.blk

\* block b is replaced in the list of the next state by one node that starts
\* after the allocation at ret, ends where b ended and has b's successor
Replaced(b, ret, size) ==
    LET new == align_up(ret + size, AlignOfListNode)
    IN  /\ FreeListOf(mem') =
               [i \in 1..Len(FreeList) |-> IF FreeList[i] = b THEN new ELSE FreeList[i]]
        /\ Len(FreeListOf(mem')) = Len(FreeList)
        /\ mem'[new].size = mem[b].size - (new - start_addr(b))
        /\ end_addr(mem', new) = end_addr(mem, b)
        /\ mem'[new].next = mem[b].next
        /\ \A n \in FreeNodes \ {b} : n \in DOMAIN mem' /\ mem'[n].size = mem[n].size

\* C9 (as claimed): when the allocation leaves at least one header of the
\* block it is taken from, allocate returns the block's start address and
\* replaces the block by one node of size old_size minus the consumed bytes,
\* ending where the block ended, with the block's successor.
C9_SplitReturnsBlockStart ==
    [][last'.op = "alloc" =>
          \A b \in FreeNodes :
              (b = FirstFit(last'.size, last'.align)
                  /\ ~HostsExactly(b, last'.size, last'.align))
              => (last'.ret = start_addr(b) /\ Replaced(b, last'.ret, last'.size))]_vars

\* C9 (amended): the same, with the address returned being the block's start
\* address rounded up to align, for the first block in list order that can
\* host the request; the consumed bytes run from the block's start to the
\* start of the new node.
C9_SplitFit ==
    [][last'.op = "alloc" =>
          \A b \in FreeNodes :
              (b = FirstFit(last'.size, last'.align)
                  /\ ~HostsExactly(b, last'.size, last'.align))
              => (last'.ret = align_up(start_addr(b), last'.align)
                     /\ Replaced(b, last'.ret, last'.size))]_vars

\* a split has served an over-aligned request past the start of a block that
\* has a successor
C9_Witness ==
    /\ last.op = "alloc"
    /\ last.fit = "Split"
    /\ last.ret # last.blk
    /\ mem[mem[last.prev].next].next # NULL

\* the split of block b for the request would leave a remainder, from the
\* descriptor-aligned end of the allocation to the end of b, that is nonzero
\* and smaller than one header
LeavesFragment(b, size, align) ==
    LET rem == end_addr(mem, b)
                   - align_up(align_up(start_addr(b), align) + size, AlignOfListNode)
    IN  rem > 0 /\ rem < SizeOfListNode

\* C10: allocate never takes the allocation from a block whose split would
\* leave such a remainder: the block stays in the list as it is.
C10_FragmentRejection ==
    [][last'.op = "alloc" =>
          \A b \in FreeNodes :
              LeavesFragment(b, last'.size, last'.align)
              => /\ last'.blk # b
                 /\ b \in DOMAIN mem'
                 /\ mem'[b].size = mem[b].size]_vars

\* the contexts between lock acquisition and lock release
Holders == {p \in Contexts : pc[p] \notin {"idle", "lock"}}

\* C5: at most one context at a time is between lock acquisition and lock
\* release; the context that has just acquired the lock, and anyone while the
\* lock is free, finds the memory left by a whole number of completed calls;
\* and the call it then makes leaves the memory and returns the address that
\* the call applied whole would.
C5_Serialized ==
    /\ Cardinality(Holders) <= 1
    /\ lock <=> Holders # {}
    /\ ~lock => mem = shadow
    /\ \A p \in Contexts :
           /\ pc[p] = "held" => mem = shadow
           /\ pc[p] = "unlock" => /\ mem = Whole(shadow, loc[p]).mem
                                  /\ loc[p].ret = Whole(shadow, loc[p]).ret

\* one context is between the take() and the relinking of a release, the list
\* cut in two, while another context spins in lock()
C5_Witness ==
    \E p, q \in Contexts :
        /\ pc[p] = "add_link"
        /\ pc[q] = "lock"
        /\ FreeListOf(mem) # FreeListOf(shadow)
        /\ Len(FreeListOf(shadow)) >= 2

\* C11: on a fresh heap three allocations of one size N and one alignment
\* succeed, the middle one is released, and allocate(N, align) is called
\* again: the call returns the address of the released middle block.
C11_ReusesMiddle ==
    [][(tri.phase = "released" /\ last'.op = "alloc" /\ last'.size = tri.size
                               /\ last'.align = tri.align)
         => last'.ret = tri.mid]_vars

(* ------------------------- release: frame effects -------------------- *)

\* this step is a dealloc call: the released allocation leaves the bag
DeallocStep == last'.op = "dealloc" /\ live' # live

\* this step is an alloc call
AllocStep == last'.op = "alloc" /\ (last' # last \/ mem' # mem \/ live' # live)

\* what add_free_region keeps of the region released by this step
ReleasedAddr == align_up(last'.ret, WORD_64)

ReleasedSize == last'.ret + last'.size - ReleasedAddr

Without(q, x) == SelectSeq(q, LAMBDA y : y # x)

\* C16: a release of at least header size adds exactly one node, at the
\* word-aligned released address and with the released size; every node that
\* was on the list keeps its address, its size and its place among the
\* others, also when the released region touches one of them.
C16_NoCoalescing ==
    [][(DeallocStep /\ ReleasedSize >= SizeOfListNode)
         => /\ ReleasedAddr \notin FreeNodes
            /\ Len(FreeListOf(mem')) = Len(FreeList) + 1
            /\ Without(FreeListOf(mem'), ReleasedAddr) = FreeList
            /\ mem'[ReleasedAddr].size = ReleasedSize
            /\ \A n \in FreeNodes : mem'[n].size = mem[n].size]_vars

\* a release has just put a node directly between two free blocks it touches
C16_Witness ==
    /\ last.op = "dealloc"
    /\ last.size >= SizeOfListNode
    /\ last.ret \in FreeNodes
    /\ \E n \in FreeNodes : n = last.ret + mem[last.ret].size
    /\ \E n \in FreeNodes : n + mem[n].size = last.ret

(* ------------------------------- headers ----------------------------- *)

\* C17: the header of every node the allocator has written, the 16 bytes
\* from the node's address, shares no byte with a live allocation.
C17_HeadersMissLive ==
    \A n \in DOMAIN mem \ {HEAD} : \A x \in LiveSet :
        ~Overlap(n, SizeOfListNode, x.addr, x.size)

\* a split whose remainder starts at a rounded-up address, live allocations
\* on both sides of the remainder
C17_Witness ==
    /\ last.op = "alloc" /\ last.fit = "Split"
    /\ align_up(last.ret + last.size, AlignOfListNode) # last.ret + last.size
    /\ align_up(last.ret + last.size, AlignOfListNode) \in FreeNodes
    /\ \E x \in LiveSet : x.addr > last.ret

(* ------------------------------ capacity ------------------------------ *)

RECURSIVE SumLive(_, _)
SumLive(b, S) ==
    IF S = {} THEN 0
    ELSE LET x == CHOOSE y \in S : TRUE
         IN  x.size * b[x] + SumLive(b, S \ {x})

\* the sum of the sizes of the live allocations
TotalLive == SumLive(live, LiveSet)

\* C18: free capacity plus live allocations never exceed heap_size; an
\* allocate never increases the total free size, a release increases it by
\* at most the released size.
C18_Capacity ==
    /\ [](TotalFree + TotalLive <= heap_size)
    /\ [][AllocStep => TotalFreeOf(mem') <= TotalFree]_vars
    /\ [][DeallocStep => TotalFreeOf(mem') <= TotalFree + last'.size]_vars

\* free and live memory both present, and capacity lost to padding
C18_Witness ==
    /\ last.op = "dealloc"
    /\ TotalFree > 0 /\ TotalLive > 0
    /\ TotalFree + TotalLive < heap_size

(* ----------------------------- termination ---------------------------- *)

\* C19: the free list is finite and acyclic, no node is met twice from the
\* sentinel, so the loops of find_region and add_free_region end.
C19_Acyclic ==
    /\ Len(FreeList) < MaxNodes
    /\ Cardinality(FreeNodes) = Len(FreeList)
    /\ \A n \in FreeNodes : n \in DOMAIN mem /\ n # HEAD
    /\ last.fit # "Diverge"

\* find_region has walked past a node of a list of several nodes
C19_Witness ==
    /\ last.op = "alloc"
    /\ last.prev # HEAD /\ last.prev \in FreeNodes
    /\ Len(FreeList) >= 2

(* ------------------------------- panic -------------------------------- *)

\* C14: once an allocation failure has reached the allocation-error handler
\* the whole diagnostic is written to the UART, in order, before the halt
\* loop is entered; the loop is entered, never left, and from the handler on
\* no allocate or release is performed.
C14_DiagnosticThenHalt ==
    /\ [](pan = "halt" => out = Msg)
    /\ [][pan # "run" => mem' = mem /\ live' = live /\ last' = last]_vars
    /\ [][pan = "halt" => pan' = "halt"]_vars
    /\ (pan = "panic" ~> pan = "halt")

\* halted after a failed allocation, the message out, the UART still sending
C14_Witness ==
    /\ pan = "halt"
    /\ last.op = "alloc" /\ last.ret = NULL
    /\ out = Msg
    /\ ~tx

(* --------------------------- lock: progress --------------------------- *)

\* the handler of context p spins in lock() while p, suspended, is the holder
Reentered(p) ==
    /\ pc[HandlerOf(p)] = "lock"
    /\ pc[p] \notin {"idle", "lock"}

\* C13: once a handler has called alloc or dealloc while the context it
\* interrupted holds the lock, the handler stays in lock(), the interrupted
\* context stays where it is, the lock stays taken, and no call of any
\* context returns any more.
C13_ReentrantDeadlock ==
    [][\A p \in Contexts :
          Reentered(p) => /\ Reentered(p)'
                          /\ pc'[p] = pc[p]
                          /\ lock'
                          /\ \A q \in AllContexts :
                                 pc[q] # "idle" => pc'[q] # "idle"]_vars

\* a handler spins on the lock of its own hart, and another hart spins too
C13_Witness ==
    \E p, q \in Contexts :
        /\ p # q
        /\ Reentered(p)
        /\ pc[q] = "lock"

\* C15: a call that returns has released the lock, whether it allocated,
\* returned null or dropped the region; and with no re-entrant acquisition a
\* taken lock is always free again later.
C15_LockReleased ==
    /\ [][\A p \in Contexts : (pc[p] # "idle" /\ pc'[p] = "idle") => ~lock']_vars
    /\ (lock ~> ~lock)

\* a call on the null path is about to return while another context waits
C15_Witness ==
    \E p, q \in Contexts :
        /\ pc[p] = "unlock" /\ loc[p].op = "alloc" /\ loc[p].ret = NULL
        /\ lock
        /\ pc[q] = "lock" /\ loc[q].op = "dealloc" /\ loc[q].size < SizeOfListNode

\* C20: whenever a context spins in lock(), some context gets to the end of
\* its operation with the lock, and a context at the end of its operation
\* returns.
C20_ContentionProgress ==
    /\ ((\E p \in Contexts : pc[p] = "lock") ~> (\E q \in Contexts : pc[q] = "unlock"))
    /\ \A q \in Contexts : (pc[q] = "unlock") ~> (pc[q] = "idle")

\* two contexts in lock() at once, the lock free
C20_Witness ==
    /\ ~lock
    /\ \A p \in Contexts : pc[p] = "lock"

====
